---- MODULE Spec2Model ----
(***************************************************************************)
(* Model of maps/interactive_rendering.py: the InteractiveEnv session.     *)
(*                                                                         *)
(* The control loop (_cycle) is single threaded.  The key callbacks        *)
(* _key_press / _key_release run to completion while the loop is inside    *)
(* env.render(), where the viewer dispatches the window's pending events.  *)
(* Nothing between the return of env.step() and the call of env.render()   *)
(* reads a field the callbacks write, so an event handled during env.step  *)
(* is indistinguishable from one handled at the start of env.render().     *)
(* The loop is cut into three straight-line segments:                      *)
(*    CycleTop      lines 55-66 and the call of env.step on line 67        *)
(*    StepReturn    the return of env.step, lines 67-91, call of render    *)
(*    RenderReturn  the return of env.render (93) and lines 95-96          *)
(*                                                                         *)
(* Rewards are fixed-point numbers in units of 1e-4, observations in       *)
(* units of 1e-3, so that round(., 3) and np.around(., 2) are real         *)
(* conversions (round half to even on the decimal value).                  *)
(***************************************************************************)
EXTENDS Integers, Sequences, FiniteSets, TLC

\* ---------------------------------------------------------------- bounds
MaxAgents == 2
MaxTicks == 3
MaxPre == 1

\* ------------------------------------------------------------- constants
N_TEXT_LINES_INTERACTIVE == 6

\* pyglet key codes the handlers distinguish; OTHER stands for every other code
DirKeys == {"LEFT", "RIGHT", "DOWN", "UP"}
KeyCodes == DirKeys \cup {"TAB", "R", "OTHER"}

\* the results env.step may return for n agents: obs is the observation of
\* the active agent (units of 1e-3), rew the reward of every agent (units of
\* 1e-4: every agent gets -0.0005, or agent i gets 0.0015 + 0.001 * i)
StepOutcomes(n) ==
    LET rA == [i \in 0..(n - 1) |-> -5]
        rB == [i \in 0..(n - 1) |-> 15 + 10 * i]
        o1 == <<125, -35>>
        o2 == <<5, 15, 1000>>
    IN {[obs |-> o1, rew |-> rA, done |-> FALSE],
        [obs |-> o2, rew |-> rB, done |-> FALSE],
        [obs |-> o2, rew |-> rA, done |-> TRUE],
        [obs |-> o1, rew |-> rB, done |-> TRUE]}

VARIABLES
    pc,                   \* "init", "in_step", "in_render", "cycle_top", "error"
    continuous,           \* self.continuous
    n_agents,             \* self.n_agents
    current_agent_index,  \* self.current_agent_index
    reset,                \* self.reset
    keys,                 \* self.keys, indices 0..3
    u,                    \* self.u
    has_text_lines,       \* whether viewer has a text_lines attribute
    text_lines,           \* viewer.text_lines: sequence of [idx, text]
    text_idx,             \* self.text_idx
    total_rew,            \* local total_rew of _cycle
    active_agent_index,   \* local active_agent_index of _cycle
    action_list,          \* the argument of the env.step call in progress
    rew,                  \* local rew of _cycle (zeros before the first step)
    done,                 \* local done of _cycle (FALSE before the first step)
    tick,                 \* number of the loop iteration being executed
    env_log,              \* calls made on the environment in this iteration
    last_R,               \* R events handled during the latest render:
                          \* "none", "press" (last one a press),
                          \* "press_release" (a press, then last one a release)
    last_ev,              \* last event handled in the render in progress:
                          \* "press_dir", "release_held" (a directional key
                          \* that was held), "none" (anything else)
    tab_presses,          \* number of TAB presses handled so far, counted
                          \* modulo n_agents
    rew_sum,              \* per agent, the sum of the rewards env.step has
                          \* returned since the latest env.reset call
    write_log             \* indices passed to _write_values in this
                          \* iteration, in order

vars == <<pc, continuous, n_agents, current_agent_index, reset, keys, u,
          has_text_lines, text_lines, text_idx, total_rew, active_agent_index,
          action_list, rew, done, tick, env_log, last_R, last_ev, tab_presses,
          rew_sum, write_log>>

\* ------------------------------------------------------- pure helpers

\* mutant of EnumOf: the order of the comment on line 37 (up, down, left, right)
EnumOfCommentOrder(k) ==
    CASE k = "UP" -> 1
      [] k = "DOWN" -> 2
      [] k = "LEFT" -> 3
      [] k = "RIGHT" -> 4

\* the enum value the press handler assigns to a directional key
EnumOf(k) ==
    CASE k = "LEFT" -> 1
      [] k = "RIGHT" -> 2
      [] k = "DOWN" -> 3
      [] k = "UP" -> 4

\* mutant of KeyIndex: the order of the comment on line 37
KeyIndexCommentOrder(k) ==
    CASE k = "UP" -> 0
      [] k = "DOWN" -> 1
      [] k = "LEFT" -> 2
      [] k = "RIGHT" -> 3

\* the index of self.keys a directional key sets
KeyIndex(k) ==
    CASE k = "LEFT" -> 0
      [] k = "RIGHT" -> 1
      [] k = "DOWN" -> 2
      [] k = "UP" -> 3

\* np.sum(self.keys)
NpSum(ks) == ks[0] + ks[1] + ks[2] + ks[3]

\* np.argmax(self.keys): the first index holding the maximum
NpArgmax(ks) ==
    LET m == IF \E i \in 0..3 : ks[i] = 1 THEN 1 ELSE 0
    IN CHOOSE i \in 0..3 : ks[i] = m /\ \A j \in 0..3 : ks[j] = m => i <= j

\* mutant of ContinuousAction: both differences taken the wrong way round
ContinuousActionSwapped(ks) == <<ks[0] - ks[1], ks[2] - ks[3]>>

\* (self.keys[1] - self.keys[0], self.keys[3] - self.keys[2])
ContinuousAction(ks) == <<ks[1] - ks[0], ks[3] - ks[2]>>

\* mutant of DiscreteReleaseAction: reverts to the first held key whenever
\* any key is held
DiscreteReleaseAnyHeld(ks) ==
    IF NpSum(ks) >= 1 THEN NpArgmax(ks) + 1 ELSE 0

\* mutant of DiscreteReleaseAction: the index of the held key, not its enum
DiscreteReleaseNoIncrement(ks) ==
    IF NpSum(ks) = 1 THEN NpArgmax(ks) ELSE 0

\* mutant of DiscreteReleaseAction: the enum is taken one too high
DiscreteReleaseOneTooHigh(ks) ==
    IF NpSum(ks) = 1 THEN NpArgmax(ks) + 2 ELSE 0

\* the discrete branch of _key_release
DiscreteReleaseAction(ks) ==
    IF NpSum(ks) = 1 THEN NpArgmax(ks) + 1 ELSE 0

\* the no-op entry of an action list
NoOp(cont) == IF cont THEN <<0, 0>> ELSE 0

\* round half to even of x to a multiple of m
RoundTo(x, m) ==
    LET q == x \div m
        r == x % m
    IN IF 2 * r < m THEN q * m
       ELSE IF 2 * r > m THEN (q + 1) * m
       ELSE IF q % 2 = 0 THEN q * m ELSE (q + 1) * m

\* round(x, 3) on a value in units of 1e-4
Round3(x) == RoundTo(x, 10)

\* np.around(o, decimals=2) on a vector in units of 1e-3
Around2(o) == [i \in 1..Len(o) |-> RoundTo(o[i], 10)]

\* o[len_obs//2:] and o[:len_obs//2]
SecondHalf(o) == SubSeq(o, (Len(o) \div 2) + 1, Len(o))
FirstHalf(o) == SubSeq(o, 1, Len(o) \div 2)

\* mutant of AddRew: only the first agent's reward is accumulated
AddRewFirstOnly(t, r) == [i \in DOMAIN t |-> IF i = 0 THEN t[i] + r[i] ELSE t[i]]

\* mutant of AddRew: the sum is replaced by the reward of the tick
AddRewReplace(t, r) == [i \in DOMAIN t |-> r[i]]

\* list(map(add, total_rew, rew))
AddRew(t, r) == [i \in DOMAIN t |-> t[i] + r[i]]

\* [0] * n
Zeros(n) == [i \in 0..(n - 1) |-> 0]

\* a formatted overlay message: the literal part and the numbers shown
Msg(label, val) == [label |-> label, val |-> val]

\* f"Done: {done}"
DoneMsg(d) == Msg(IF d THEN "Done: True" ELSE "Done: False", <<>>)

\* mutant of WriteValues: the line before the one asked for is written
WriteValuesBelow(lines, index, message) ==
    [lines EXCEPT ![index] = [@ EXCEPT !.text = message]]

\* _write_values(index, message): text_lines[index].set_text(message)
WriteValues(lines, index, message) ==
    [lines EXCEPT ![index + 1] = [@ EXCEPT !.text = message]]

\* ---------------------------------------------------------------- Init
\* the state on entry to _init_text (line 41): fields of lines 31-38 set,
\* the first env.render() of line 40 done
Init ==
    /\ pc = "init"
    /\ continuous \in BOOLEAN
    /\ n_agents \in 1..MaxAgents
    /\ current_agent_index = 0
    /\ reset = FALSE
    /\ keys = [i \in 0..3 |-> 0]
    /\ u = NoOp(continuous)
    /\ has_text_lines \in BOOLEAN
    /\ \E n \in 0..MaxPre :
          /\ has_text_lines \/ n = 0
          /\ text_lines = [i \in 1..n |-> [idx |-> i - 1, text |-> Msg("pre", <<>>)]]
    /\ text_idx = 0
    /\ total_rew = Zeros(n_agents)
    /\ active_agent_index = 0
    /\ action_list = <<>>
    /\ rew = Zeros(n_agents)
    /\ done = FALSE
    /\ tick = 0
    /\ env_log = <<"render">>
    /\ last_R = "none"
    /\ last_ev = "none"
    /\ tab_presses = 0
    /\ rew_sum = [i \in 0..(n_agents - 1) |-> 0]
    /\ write_log = <<>>

\* ------------------------------------------------------------- _init_text
\* lines 98-110.  Without a text_lines attribute line 102 raises, the
\* handler sets text_idx = 0, and the append of line 110 raises again.
InitText ==
    /\ pc = "init"
    /\ IF has_text_lines
       THEN /\ text_idx' = Len(text_lines)
            /\ text_lines' = text_lines \o
                   [i \in 1..N_TEXT_LINES_INTERACTIVE |->
                       [idx |-> Len(text_lines) + (i - 1), text |-> Msg("", <<>>)]]
            /\ pc' = "cycle_top"
       ELSE /\ text_idx' = 0
            /\ text_lines' = text_lines
            /\ pc' = "error"
    /\ UNCHANGED <<continuous, n_agents, current_agent_index, reset, keys, u,
                   has_text_lines, total_rew, active_agent_index, action_list,
                   rew, done, tick, env_log, last_R, last_ev, tab_presses,
                   rew_sum, write_log>>

\* ------------------------------------------- _increment_selected_agent_index
\* mutant of IncrementSelectedAgentIndex: wraps one index too early
IncrementWrapEarly(i, n) == IF i + 1 = n - 1 THEN 0 ELSE i + 1

\* mutant of IncrementSelectedAgentIndex: wraps one index too late
IncrementWrapLate(i, n) == IF i = n THEN 0 ELSE i + 1

IncrementSelectedAgentIndex(i, n) == IF i + 1 = n THEN 0 ELSE i + 1

\* ------------------------------------------------------------ key handlers
\* the callbacks run while the loop is inside env.render()
CanDeliver == pc = "in_render"

\* the keys array after a press of k (lines 122-133)
PressKeys(k, ks) == IF k \in DirKeys THEN [ks EXCEPT ![KeyIndex(k)] = 1] ELSE ks

\* the local u of _key_press after the if/elif chain (lines 121-137)
PressU(k, uOld) == IF k \in DirKeys THEN EnumOf(k) ELSE uOld

\* the keys array after a release of k (lines 147-154)
ReleaseKeys(k, ks) == IF k \in DirKeys THEN [ks EXCEPT ![KeyIndex(k)] = 0] ELSE ks

\* self.u after _key_release (lines 158-164)
ReleaseU(cont, ks) ==
    IF cont THEN ContinuousAction(ks) ELSE DiscreteReleaseAction(ks)

\* mutant of PressAgentIndex: the R branch advances the selection too
PressAgentIndexOnR(k, i, n) ==
    IF k \in {"TAB", "R"} THEN IncrementSelectedAgentIndex(i, n) ELSE i

\* self.current_agent_index after a press of k (lines 134-135)
PressAgentIndex(k, i, n) ==
    IF k = "TAB" THEN IncrementSelectedAgentIndex(i, n) ELSE i

\* self.reset after a press of k (lines 136-137)
PressReset(k, r) == IF k = "R" THEN TRUE ELSE r

\* mutant of ReleaseReset: the release of R does not clear the flag
ReleaseResetKeep(k, r) == r

\* self.reset after a release of k (lines 155-156)
ReleaseReset(k, r) == IF k = "R" THEN FALSE ELSE r

KeyPress(k) ==
    /\ CanDeliver
    /\ keys' = PressKeys(k, keys)
    /\ current_agent_index' = PressAgentIndex(k, current_agent_index, n_agents)
    /\ reset' = PressReset(k, reset)
    /\ u' = IF continuous THEN ContinuousAction(keys') ELSE PressU(k, u)
    /\ last_R' = IF k = "R" THEN "press" ELSE last_R
    /\ last_ev' = IF k \in DirKeys THEN "press_dir" ELSE "none"
    /\ tab_presses' = IF k = "TAB" THEN (tab_presses + 1) % n_agents
                      ELSE tab_presses
    /\ UNCHANGED <<pc, continuous, n_agents, has_text_lines, text_lines,
                   text_idx, total_rew, active_agent_index, action_list, rew,
                   done, tick, env_log, rew_sum, write_log>>

KeyRelease(k) ==
    /\ CanDeliver
    /\ keys' = ReleaseKeys(k, keys)
    /\ reset' = ReleaseReset(k, reset)
    /\ u' = ReleaseU(continuous, keys')
    /\ last_R' = IF k = "R" /\ last_R = "press" THEN "press_release" ELSE last_R
    /\ last_ev' = IF k \in DirKeys /\ keys[KeyIndex(k)] = 1
                  THEN "release_held" ELSE "none"
    /\ UNCHANGED <<pc, continuous, n_agents, current_agent_index,
                   has_text_lines, text_lines, text_idx, total_rew,
                   active_agent_index, action_list, rew, done, tick, env_log,
                   tab_presses, rew_sum, write_log>>

\* ------------------------------------------------------------------ _cycle
\* mutant of BuildActionList: every agent receives the action
BuildActionListAll(cont, n, idx, act) == [i \in 0..(n - 1) |-> act]

\* mutant of BuildActionList: the action always goes to agent 0
BuildActionListFirst(cont, n, idx, act) ==
    [[i \in 0..(n - 1) |-> NoOp(cont)] EXCEPT ![0] = act]

\* lines 62-66
BuildActionList(cont, n, idx, act) ==
    [[i \in 0..(n - 1) |-> NoOp(cont)] EXCEPT ![idx] = act]

\* mutant of ResetAfterCheck: the flag is not cleared after the reset
ResetAfterCheckKeep(r) == r

\* self.reset after lines 55-58
ResetAfterCheck(r) == IF r THEN FALSE ELSE r

\* lines 55-67 up to the call of env.step
CycleTop ==
    /\ pc = "cycle_top"
    /\ tick < MaxTicks
    /\ IF reset
       THEN /\ env_log' = <<"reset", "step">>
            /\ rew_sum' = [i \in 0..(n_agents - 1) |-> 0]
            /\ total_rew' = Zeros(n_agents)
       ELSE /\ env_log' = <<"step">>
            /\ rew_sum' = rew_sum
            /\ total_rew' = total_rew
    /\ write_log' = <<>>
    /\ reset' = ResetAfterCheck(reset)
    /\ active_agent_index' = current_agent_index
    /\ action_list' = BuildActionList(continuous, n_agents, current_agent_index, u)
    /\ tick' = tick + 1
    /\ pc' = "in_step"
    /\ UNCHANGED <<continuous, n_agents, current_agent_index, keys, u,
                   has_text_lines, text_lines, text_idx, rew, done, last_R,
                   last_ev, tab_presses>>

\* the indices of the six _write_values calls of lines 74-91, in order
OverlayIndices(base) ==
    <<base, base + 1, base + 2, base + 3, base + 4, base + 5>>

\* the six _write_values calls of lines 69-91
Overlay(lines, base, o, r, t, d, a) ==
    LET l0 == WriteValues(lines, base, Msg("\t\t", SecondHalf(Around2(o))))
        l1 == WriteValues(l0, base + 1, Msg("Obs: ", FirstHalf(Around2(o))))
        l2 == WriteValues(l1, base + 2, Msg("Rew: ", <<Round3(r[a])>>))
        l3 == WriteValues(l2, base + 3, Msg("Total rew: ", <<Round3(t[a])>>))
        l4 == WriteValues(l3, base + 4, DoneMsg(d))
    IN WriteValues(l4, base + 5, Msg("Selected: ", <<a>>))

\* the return of env.step (line 67), lines 69-91, and the call of
\* env.render.  Only obs[active_agent_index] is read, so only it is drawn.
StepReturn ==
    /\ pc = "in_step"
    /\ \E res \in StepOutcomes(n_agents) :
          /\ rew' = res.rew
          /\ done' = res.done
          /\ rew_sum' = [i \in 0..(n_agents - 1) |-> rew_sum[i] + res.rew[i]]
          /\ total_rew' = AddRew(total_rew, res.rew)
          /\ text_lines' = Overlay(text_lines, text_idx, res.obs, res.rew,
                                   total_rew', res.done, active_agent_index)
    /\ write_log' = OverlayIndices(text_idx)
    /\ action_list' = <<>>
    /\ env_log' = Append(env_log, "render")
    /\ last_R' = "none"
    /\ pc' = "in_render"
    /\ UNCHANGED <<continuous, n_agents, current_agent_index, reset, keys, u,
                   has_text_lines, text_idx, active_agent_index, tick, last_ev,
                   tab_presses>>

\* mutant of ArmReset: termination does not arm the reset
ArmResetNever(d, r) == r

\* self.reset after lines 95-96
ArmReset(d, r) == IF d THEN TRUE ELSE r

\* the return of env.render (line 93) and lines 95-96
RenderReturn ==
    /\ pc = "in_render"
    /\ reset' = ArmReset(done, reset)
    /\ pc' = "cycle_top"
    /\ last_ev' = "none"
    /\ UNCHANGED <<continuous, n_agents, current_agent_index, keys, u,
                   has_text_lines, text_lines, text_idx, total_rew,
                   active_agent_index, action_list, rew, done, tick, env_log,
                   last_R, tab_presses, rew_sum, write_log>>

Next ==
    \/ InitText
    \/ CycleTop
    \/ StepReturn
    \/ RenderReturn
    \/ \E k \in KeyCodes : KeyPress(k)
    \/ \E k \in KeyCodes : KeyRelease(k)

Spec == Init /\ [][Next]_vars

\* ------------------------------------------------------------------ claims

\* the enum values the specification gives the directional keys
SpecEnum(k) ==
    IF k = "LEFT" THEN 1 ELSE IF k = "RIGHT" THEN 2
    ELSE IF k = "DOWN" THEN 3 ELSE 4

\* the directional keys whose bit is set in ks
Held(ks) == {k \in DirKeys : ks[SpecEnum(k) - 1] = 1}

\* C1: in discrete mode, right after a press of a directional key K the
\* action value is K's enum value (LEFT=1, RIGHT=2, DOWN=3, UP=4), whatever
\* other directional keys are held.
C1_LastPressWins ==
    [][\A k \in DirKeys : (~continuous /\ KeyPress(k)) => u' = SpecEnum(k)]_vars

\* UP was pressed while LEFT was held: the action is 4
C1_Witness ==
    /\ ~continuous
    /\ last_ev = "press_dir"
    /\ Held(keys) = {"LEFT", "UP"}
    /\ u = 4

\* C2: in discrete mode, right after a release of a directional key the
\* action is the enum value of the one key still held if exactly one is
\* held, and no-op (0) if none or more than one is held.
C2_ReleaseRederives ==
    [][\A k \in DirKeys :
          (~continuous /\ KeyRelease(k)) =>
              IF Cardinality(Held(keys')) = 1
              THEN \A h \in Held(keys') : u' = SpecEnum(h)
              ELSE u' = 0]_vars

\* one of three held keys was released: two remain and the action is no-op
C2_Witness ==
    /\ ~continuous
    /\ last_ev = "release_held"
    /\ Cardinality(Held(keys)) = 2
    /\ u = 0

\* C3 as stated: in discrete mode, releasing one of exactly two held
\* directional keys makes the action no-op (0).
C3_Original ==
    [][\A k \in DirKeys :
          (/\ ~continuous
           /\ Cardinality(Held(keys)) = 2
           /\ k \in Held(keys)
           /\ KeyRelease(k)) => u' = 0]_vars

\* C3 amended: in discrete mode, releasing one of exactly two held
\* directional keys makes the action the enum value of the key still held
\* (never no-op); the action collapses to no-op only when the release
\* leaves two or more keys held, or none.
C3_Amended ==
    [][\A k \in DirKeys :
          (~continuous /\ k \in Held(keys) /\ KeyRelease(k)) =>
              /\ Cardinality(Held(keys)) = 2 =>
                    /\ u' # 0
                    /\ \A h \in Held(keys) \ {k} : u' = SpecEnum(h)
              /\ Cardinality(Held(keys)) # 2 => u' = 0]_vars

\* a held key was released and exactly UP is still held: the action is 4
C3_Witness ==
    /\ ~continuous
    /\ last_ev = "release_held"
    /\ Held(keys) = {"UP"}
    /\ u = 4

\* C4: in both modes a press or a release of TAB or of R leaves the action
\* value unchanged.
C4_TabAndRKeepAction ==
    [][\A k \in {"TAB", "R"} : (KeyPress(k) \/ KeyRelease(k)) => u' = u]_vars

\* C5: a press or a release of a key other than LEFT, RIGHT, DOWN, UP, TAB
\* and R changes none of KeyState, the action value, the selected agent
\* index and ResetFlag.
C5_OtherKeysIgnored ==
    [][(KeyPress("OTHER") \/ KeyRelease("OTHER")) =>
          /\ keys' = keys
          /\ u' = u
          /\ current_agent_index' = current_agent_index
          /\ reset' = reset]_vars

\* C6: in continuous mode the action value is always
\* (right-bit - left-bit, up-bit - down-bit) of the current KeyState.
C6_ContinuousFromKeys ==
    continuous => u = <<keys[1] - keys[0], keys[3] - keys[2]>>

\* LEFT, RIGHT and UP are held: the horizontal axis cancels to 0
C6_Witness ==
    /\ continuous
    /\ Held(keys) = {"LEFT", "RIGHT", "UP"}
    /\ u = <<0, 1>>

\* the six overlay slots of this session, as text_lines holds them
Slot(i) == text_lines[text_idx + i + 1].text

\* C7: when the step of tick T returns done, tick T writes its overlay from
\* that step's observation and reward and calls render with no reset in
\* between; whatever keys are handled during that render, no reset is
\* called and the flag is set when the render returns; tick T+1 calls
\* reset before its step and its cumulative reward is its own reward.
C7_ResetOrdering ==
    [][/\ (pc = "in_step" /\ pc' = "in_render" /\ done') =>
              /\ \E res \in StepOutcomes(n_agents) :
                    /\ res.done
                    /\ rew' = res.rew
                    /\ Slot(0)' = Msg("\t\t", SecondHalf(Around2(res.obs)))
                    /\ Slot(1)' = Msg("Obs: ", FirstHalf(Around2(res.obs)))
                    /\ Slot(2)' = Msg("Rew: ",
                                      <<Round3(res.rew[active_agent_index])>>)
              /\ Slot(4)' = Msg("Done: True", <<>>)
              /\ env_log' = Append(env_log, "render")
              /\ env_log[Len(env_log)] = "step"
              /\ reset' = reset
       /\ (pc = "in_render" /\ done) =>
              /\ env_log' = env_log
              /\ pc' = "cycle_top" => reset'
       /\ (pc = "cycle_top" /\ done /\ pc' = "in_step") =>
              /\ env_log' = <<"reset", "step">>
              /\ total_rew' = [i \in 0..(n_agents - 1) |-> 0]
       /\ (pc = "in_step" /\ done /\ pc' = "in_render") =>
              /\ total_rew' = rew'
              /\ Slot(3)' = Msg("Total rew: ",
                                <<Round3(rew'[active_agent_index])>>)
      ]_vars

\* tick T returned done, R was pressed and released during its render, and
\* tick T+1 has called reset and then step, with the cumulative reward zero
C7_Witness ==
    /\ pc = "in_step"
    /\ done
    /\ last_R = "press_release"
    /\ env_log = <<"reset", "step">>
    /\ \A i \in 0..(n_agents - 1) : total_rew[i] = 0

\* C8 as stated: if R is pressed and then released before the next tick
\* begins, ResetFlag is clear when that tick checks it and the tick calls
\* no reset.
C8_Original ==
    [][(pc = "cycle_top" /\ last_R = "press_release" /\ pc' = "in_step") =>
          (~reset /\ env_log' = <<"step">>)]_vars

\* C8 amended: if R is pressed and then released during the render of a
\* tick whose step did not return done, ResetFlag is clear when the next
\* tick checks it and that tick calls no reset.
C8_Amended ==
    [][(pc = "cycle_top" /\ last_R = "press_release" /\ ~done
            /\ pc' = "in_step") =>
          (~reset /\ env_log' = <<"step">>)]_vars

\* R was pressed and released during the previous render, the step before
\* it was not terminal, and this tick called step without a reset
C8_Witness ==
    /\ pc = "in_step"
    /\ last_R = "press_release"
    /\ ~done
    /\ tick >= 2
    /\ env_log = <<"step">>

\* C9: an R press not followed by an R release before the flag check makes
\* the next tick call reset once, before its step, and leaves ResetFlag
\* false; a tick calls no reset when no R press was handled and the step
\* did not return done since the previous flag check; ResetFlag becomes set
\* only by an R press or by done.
C9_OneResetPerPress ==
    [][/\ (pc = "cycle_top" /\ last_R = "press" /\ pc' = "in_step") =>
              /\ reset
              /\ env_log' = <<"reset", "step">>
              /\ ~reset'
       /\ (pc = "cycle_top" /\ last_R = "none" /\ ~done /\ pc' = "in_step") =>
              /\ env_log' = <<"step">>
              /\ ~reset'
       /\ (~reset /\ reset') =>
              \/ KeyPress("R")
              \/ (pc = "in_render" /\ pc' = "cycle_top" /\ done)
      ]_vars

\* R was pressed and not released during the render of a non-terminal tick,
\* and the next tick has called reset, then step, and cleared the flag
C9_Witness ==
    /\ pc = "in_step"
    /\ last_R = "press"
    /\ ~done
    /\ env_log = <<"reset", "step">>
    /\ ~reset

\* the agents whose entry of the batch differs from the no-op value
NonNoOp == {i \in DOMAIN action_list : action_list[i] # NoOp(continuous)}

\* C10 as stated: in the batch passed to env.step exactly one entry, the
\* selected agent's, differs from no-op.
C10_Original ==
    pc = "in_step" => NonNoOp = {active_agent_index}

\* C10 amended: in the batch passed to env.step every entry other than the
\* selected agent's is no-op and the selected agent's entry is the current
\* action value, so at most one entry differs from no-op: exactly one when
\* the action value is not no-op, none when it is.
C10_Amended ==
    pc = "in_step" =>
        /\ DOMAIN action_list = 0..(n_agents - 1)
        /\ \A i \in DOMAIN action_list :
              i # active_agent_index => action_list[i] = NoOp(continuous)
        /\ action_list[active_agent_index] = u
        /\ NonNoOp = IF u = NoOp(continuous) THEN {} ELSE {active_agent_index}

\* agent 1 is selected, a key is held, and the batch of the step in
\* progress carries the action for agent 1 and no-op for agent 0
C10_Witness ==
    /\ pc = "in_step"
    /\ n_agents >= 2
    /\ active_agent_index = 1
    /\ NonNoOp = {1}

\* C11: a TAB press moves the selected index from i to (i + 1) mod
\* n_agents, and the selected index is always the number of TAB presses
\* handled so far modulo n_agents, whatever else is interleaved; so
\* n_agents TAB presses bring the selection back to where it was.
C11_TabCycles ==
    [][/\ KeyPress("TAB") =>
              current_agent_index' = (current_agent_index + 1) % n_agents
       /\ current_agent_index' = tab_presses'
      ]_vars

\* with two agents: a tick ran with agent 1 selected after a reset, and a
\* further TAB press during its render brought the selection back to 0
C11_Witness ==
    /\ n_agents = 2
    /\ pc = "in_render"
    /\ env_log = <<"reset", "step", "render">>
    /\ active_agent_index = 1
    /\ current_agent_index = 0

\* C12: the selected agent index is always an integer in [0, n_agents),
\* and so is the index a tick uses for the batch and the overlay.
C12_IndexValid ==
    /\ n_agents >= 1
    /\ current_agent_index \in 0..(n_agents - 1)
    /\ active_agent_index \in 0..(n_agents - 1)

\* with two agents: the previous tick showed agent 1, the selection wrapped
\* to 0, and the tick in progress placed the action at index 0
C12_Witness ==
    /\ n_agents = 2
    /\ pc = "in_step"
    /\ Slot(5) = Msg("Selected: ", <<1>>)
    /\ active_agent_index = 0
    /\ DOMAIN action_list = {0, 1}

\* C13 as stated: a tick changes only the cumulative reward of the agent
\* selected in that tick; every other agent's cumulative reward is the
\* same after the tick's step as before it.
C13_Original ==
    [][(pc = "in_step" /\ pc' = "in_render") =>
          \A i \in 0..(n_agents - 1) :
              i # active_agent_index => total_rew'[i] = total_rew[i]]_vars

\* C13 amended: a tick adds to the cumulative reward of every agent,
\* selected or not, that agent's reward of the tick; the selection only
\* decides whose cumulative reward the overlay shows.
C13_Amended ==
    [][(pc = "in_step" /\ pc' = "in_render") =>
          /\ \A i \in 0..(n_agents - 1) :
                total_rew'[i] = total_rew[i] + rew'[i]
          /\ Slot(3)' = Msg("Total rew: ",
                            <<Round3(total_rew'[active_agent_index])>>)]_vars

\* two agents, two ticks without a reset, agent 1 selected in the second:
\* agent 0, not selected, has accumulated its reward of both ticks
C13_Witness ==
    /\ n_agents = 2
    /\ pc = "in_render"
    /\ tick = 2
    /\ env_log = <<"step", "render">>
    /\ active_agent_index = 1
    /\ rew[0] = 15
    /\ total_rew[0] = 10

\* C14: when the render surface has no text-line list at session start,
\* overlay initialisation uses base 0, registers the six slots at indices
\* 0..5 and completes without an error.
C14_MissingListTolerated ==
    (~has_text_lines /\ pc # "init") =>
        /\ pc # "error"
        /\ text_idx = 0
        /\ Len(text_lines) = 6
        /\ \A i \in 1..Len(text_lines) : text_lines[i].idx = i - 1

\* C15: the batch a tick passes to env.step has n_agents entries, the
\* entry of the selected agent is the action value the tick reads and
\* every other entry is the no-op value of the mode.
C15_BatchContents ==
    [][(pc = "cycle_top" /\ pc' = "in_step") =>
          action_list' =
              [i \in 0..(n_agents - 1) |->
                  IF i = current_agent_index THEN u
                  ELSE IF continuous THEN <<0, 0>> ELSE 0]]_vars

\* discrete mode, two agents: the previous tick ran with agent 0, TAB was
\* pressed with a key held, and the tick in progress gives the held action
\* to agent 1 and no-op to agent 0
C15_Witness ==
    /\ ~continuous
    /\ n_agents = 2
    /\ pc = "in_step"
    /\ Slot(5) = Msg("Selected: ", <<0>>)
    /\ current_agent_index = 1
    /\ Cardinality(Held(keys)) = 1
    /\ u # 0
    /\ action_list[1] = u
    /\ action_list[0] = 0

\* C16: when a tick writes the cumulative-reward line, the cumulative
\* reward of every agent is the sum of the rewards returned for it by all
\* steps since the latest reset, the current step included, and the line
\* shows that sum for the selected agent; a tick that calls reset sets
\* every agent's cumulative reward to zero before its step.
C16_CumulativeIsSum ==
    [][/\ (pc = "in_step" /\ pc' = "in_render") =>
              /\ \A i \in 0..(n_agents - 1) : total_rew'[i] = rew_sum'[i]
              /\ Slot(3)' = Msg("Total rew: ",
                                <<Round3(rew_sum'[active_agent_index])>>)
       /\ (pc = "cycle_top" /\ pc' = "in_step" /\ env_log'[1] = "reset") =>
              \A i \in 0..(n_agents - 1) : total_rew'[i] = 0
      ]_vars

\* two agents, third tick, the second tick called reset: the cumulative
\* rewards are the sums over the second and third step only
C16_Witness ==
    /\ n_agents = 2
    /\ pc = "in_render"
    /\ tick = 3
    /\ env_log = <<"step", "render">>
    /\ total_rew[0] = 10
    /\ total_rew[1] = 20

\* C17: the selected agent index changes only in a TAB press; a tick, with
\* or without an environment reset, leaves KeyState, the selected index
\* and the action value as they were.
C17_SelectionFrame ==
    [][/\ current_agent_index' # current_agent_index => KeyPress("TAB")
       /\ (\E k \in KeyCodes : KeyRelease(k)) =>
              current_agent_index' = current_agent_index
       /\ (\E k \in KeyCodes \ {"TAB"} : KeyPress(k)) =>
              current_agent_index' = current_agent_index
       /\ pc' # pc =>
              /\ keys' = keys
              /\ current_agent_index' = current_agent_index
              /\ u' = u
      ]_vars

\* agent 1 is selected and a key is held, R was pressed, and the tick in
\* progress has called reset: selection, keys and action are still there
C17_Witness ==
    /\ n_agents = 2
    /\ pc = "in_step"
    /\ last_R = "press"
    /\ env_log = <<"reset", "step">>
    /\ current_agent_index = 1
    /\ Cardinality(Held(keys)) = 1
    /\ u # (IF continuous THEN <<0, 0>> ELSE 0)

\* the labels of the six overlay lines, in slot order
SlotLabels(d) ==
    <<"\t\t", "Obs: ", "Rew: ", "Total rew: ",
      IF d THEN "Done: True" ELSE "Done: False", "Selected: ">>

\* C18: the base is the number of lines the render surface had at session
\* start; every tick writes each of the slots base+0 .. base+5 once,
\* between the return of its step and its render, and never writes a line
\* below base, so the pre-existing lines keep their text.
C18_SlotsWrittenOnce ==
    [][/\ (pc = "in_step" /\ pc' = "in_render") =>
              /\ write_log' = [i \in 1..6 |-> text_idx + (i - 1)]
              /\ \A i \in 0..5 : Slot(i)'.label = SlotLabels(done')[i + 1]
              /\ env_log' = Append(env_log, "render")
       /\ ~(pc = "in_step" /\ pc' = "in_render") =>
              /\ text_lines' = text_lines \/ pc = "init"
              /\ write_log' = write_log \/ write_log' = <<>>
       /\ pc # "init" =>
              /\ text_idx' = text_idx
              /\ Len(text_lines') = text_idx + 6
              /\ \A j \in 1..text_idx :
                    text_lines'[j] = [idx |-> j - 1, text |-> Msg("pre", <<>>)]
      ]_vars

\* one line was on the surface at session start; the second tick has
\* written slots 1..6 and the pre-existing line 0 still has its text
C18_Witness ==
    /\ pc = "in_render"
    /\ tick = 2
    /\ text_idx = 1
    /\ write_log = <<1, 2, 3, 4, 5, 6>>
    /\ text_lines[1].text = Msg("pre", <<>>)
    /\ text_lines[7].text = Msg("Selected: ", <<active_agent_index>>)

\* C19: in discrete mode the action value is always an integer in 0..4,
\* in continuous mode always a pair with both components in {-1, 0, 1}.
C19_VariantFixed ==
    IF continuous
    THEN /\ DOMAIN u = {1, 2}
         /\ u[1] \in {-1, 0, 1}
         /\ u[2] \in {-1, 0, 1}
    ELSE u \in 0..4

\* discrete mode: DOWN alone is held after a release of another held key,
\* so the action 3 comes from the argmax of the release handler
C19_Witness ==
    /\ ~continuous
    /\ last_ev = "release_held"
    /\ Held(keys) = {"DOWN"}
    /\ u = 3

\* C20: in discrete mode a non-zero action value is the enum value of a
\* key that is held, and the action value is no-op when no key is held.
C20_ActionKeyHeld ==
    ~continuous =>
        /\ u # 0 => \E k \in Held(keys) : u = SpecEnum(k)
        /\ Held(keys) = {} => u = 0

\* discrete mode: LEFT was pressed while UP was held, and a tick steps the
\* selected agent to the left
C20_Witness ==
    /\ ~continuous
    /\ pc = "in_step"
    /\ Held(keys) = {"LEFT", "UP"}
    /\ u = 1
    /\ action_list[active_agent_index] = 1
====
